---- MODULE Spec2Model ----
(***************************************************************************)
(* Model of agent-crossing-template.py: the PDDL problem generator         *)
(* (GeneratePDDL_Stationary), the three PDDL actions of the domain, and    *)
(* the translation of the planner's plan file into environment actions.    *)
(*                                                                         *)
(* Python strings that the code parses again (grid cell names, plan file   *)
(* lines) are sequences of one-character strings, so that formatting and   *)
(* parsing are computed as the code computes them.                         *)
(***************************************************************************)
EXTENDS Integers, Sequences, FiniteSets, TLC

\* ---------------------------------------------------------------- bounds
MaxWidth == 5
MaxLanes == 2
MaxCars == 2
MaxSpeed == 3
MaxMinSpeed == 2
SearchWidth == 3
SearchCars == 2
MaxPlanLen == 2

VARIABLES
    pc,              \* position in the run: "start", "problem", "crashed", ...
    width,           \* self.width
    num_lanes,       \* self.num_lanes
    state,           \* self.state: the snapshot returned by env.reset()
    grid_cell_list,  \* self.grid_cell_list
    objects,         \* self.object_strings, per object type
    free_cells,      \* generateInitString's free_cells, as left at its return
    initFacts,       \* generateInitString's initString, per predicate
    blocked_by,      \* history: which car's iteration emitted a blocked fact
    goal,            \* generateGoalString's goalString
    atFacts,         \* the planner's state: the (at cell t who) facts that hold
    plan_src,        \* history: the action instances the plan file was written from
    plan_file,       \* the lines of sas_plan, as readlines() returns them
    line_no,         \* lines of plan_file already consumed by the loop
    action_sequence, \* generatePlan's action_sequence
    env_steps        \* the actions simulateSolution passed to env.step

vars == <<pc, width, num_lanes, state, grid_cell_list, objects, free_cells,
          initFacts, blocked_by, goal, atFacts, plan_src, plan_file, line_no,
          action_sequence, env_steps>>

planVars == <<plan_src, plan_file, line_no, action_sequence, env_steps>>

snapshotVars == <<width, num_lanes, state>>

problemVars == <<grid_cell_list, objects, free_cells, initFacts, blocked_by, goal>>

\* ------------------------------------------------------- Python built-ins
Abs(n) == IF n < 0 THEN -n ELSE n

Max(a, b) == IF a >= b THEN a ELSE b

Min(a, b) == IF a <= b THEN a ELSE b

\* range(a, b) as a list
Range(a, b) == [i \in 1..Max(0, b - a) |-> a + i - 1]

\* x in list
InList(e, s) == \E i \in 1..Len(s) : s[i] = e

\* list.remove(e): removes the first occurrence
ListRemove(s, e) ==
    LET i == CHOOSE k \in 1..Len(s) : s[k] = e /\ \A j \in 1..(k-1) : s[j] # e
    IN  SubSeq(s, 1, i - 1) \o SubSeq(s, i + 1, Len(s))

DigitChar == <<"0", "1", "2", "3", "4", "5", "6", "7", "8", "9">>

RECURSIVE NatStr(_)
NatStr(n) == IF n < 10 THEN <<DigitChar[n + 1]>>
             ELSE NatStr(n \div 10) \o <<DigitChar[(n % 10) + 1]>>

\* str(n) / f"{n}" of an int
Str(n) == IF n < 0 THEN <<"-">> \o NatStr(-n) ELSE NatStr(n)

\* The decimal digits int() reads, by value: DigitChars[d + 1] holds the
\* characters of value d. int() reads every Unicode decimal digit (category
\* Nd); listed are 0-9 and the digits of the 18 further scripts whose
\* characters can be written in a string of this language (from U+06F0 to
\* U+ABF0). The digits of the other scripts are outside the alphabet of the
\* model.
DigitChars ==
    <<{"0", "۰", "߀", "০", "૦", "௦", "೦", "෦", "໐", "႐",
      "០", "᧐", "᪀", "᪐", "᮰", "꣐", "꧐", "꧰", "꯰"},
     {"1", "۱", "߁", "১", "૧", "௧", "೧", "෧", "໑", "႑",
      "១", "᧑", "᪁", "᪑", "᮱", "꣑", "꧑", "꧱", "꯱"},
     {"2", "۲", "߂", "২", "૨", "௨", "೨", "෨", "໒", "႒",
      "២", "᧒", "᪂", "᪒", "᮲", "꣒", "꧒", "꧲", "꯲"},
     {"3", "۳", "߃", "৩", "૩", "௩", "೩", "෩", "໓", "႓",
      "៣", "᧓", "᪃", "᪓", "᮳", "꣓", "꧓", "꧳", "꯳"},
     {"4", "۴", "߄", "৪", "૪", "௪", "೪", "෪", "໔", "႔",
      "៤", "᧔", "᪄", "᪔", "᮴", "꣔", "꧔", "꧴", "꯴"},
     {"5", "۵", "߅", "৫", "૫", "௫", "೫", "෫", "໕", "႕",
      "៥", "᧕", "᪅", "᪕", "᮵", "꣕", "꧕", "꧵", "꯵"},
     {"6", "۶", "߆", "৬", "૬", "௬", "೬", "෬", "໖", "႖",
      "៦", "᧖", "᪆", "᪖", "᮶", "꣖", "꧖", "꧶", "꯶"},
     {"7", "۷", "߇", "৭", "૭", "௭", "೭", "෭", "໗", "႗",
      "៧", "᧗", "᪇", "᪗", "᮷", "꣗", "꧗", "꧷", "꯷"},
     {"8", "۸", "߈", "৮", "૮", "௮", "೮", "෮", "໘", "႘",
      "៨", "᧘", "᪈", "᪘", "᮸", "꣘", "꧘", "꧸", "꯸"},
     {"9", "۹", "߉", "৯", "૯", "௯", "೯", "෯", "໙", "႙",
      "៩", "᧙", "᪉", "᪙", "᮹", "꣙", "꧙", "꧹", "꯹"}>>

IsDigit(c) == \E d \in 1..10 : c \in DigitChars[d]

DigitVal(c) == (CHOOSE d \in 1..10 : c \in DigitChars[d]) - 1

RECURSIVE NatVal(_)
NatVal(s) == IF Len(s) = 0 THEN 0
             ELSE 10 * NatVal(SubSeq(s, 1, Len(s) - 1)) + DigitVal(s[Len(s)])

\* str.isspace() of one character: space, \t, \n, \r, \f, and VT (0x0b),
\* FS, GS, RS, US (0x1c-0x1f), NEL (0x85), NBSP (0xa0) and U+1680, written
\* as the characters themselves. The further Unicode spaces (U+2000-U+200A,
\* U+2028, U+2029, U+202F, U+205F, U+3000) cannot be written in a string of
\* this language and are outside the alphabet of the model.
IsSpace(c) ==
    c \in {" ", "\n", "\t", "\r", "\f",
           "", "", "", "", "", "", " ", " "}

\* s with the characters outside positions idx cut off at both ends
StripTo(s, idx) ==
    IF idx = {} THEN <<>>
    ELSE SubSeq(s, CHOOSE i \in idx : \A j \in idx : i <= j,
                   CHOOSE i \in idx : \A j \in idx : i >= j)

\* the whitespace int() ignores around a literal: FS, GS, RS and US are not
\* among it, although str.split() cuts at them
IsIntSpace(c) == IsSpace(c) /\ c \notin {"", "", "", ""}

\* the literal int() reads: s without the whitespace around it
Strip(s) == StripTo(s, { i \in 1..Len(s) : ~IsIntSpace(s[i]) })

\* the literal without its sign
Unsigned(b) == IF Len(b) > 0 /\ b[1] \in {"-", "+"} THEN Tail(b) ELSE b

\* digits, with single underscores between digits
IsDigitRun(b) ==
    /\ Len(b) > 0
    /\ IsDigit(b[1])
    /\ IsDigit(b[Len(b)])
    /\ \A i \in 1..Len(b) :
         \/ IsDigit(b[i])
         \/ b[i] = "_" /\ i > 1 /\ IsDigit(b[i - 1])

\* int(s) raises ValueError unless s is, inside optional whitespace, an
\* optionally signed run of digits with single underscores between digits
IsIntStr(s) == IsDigitRun(Unsigned(Strip(s)))

\* the value of a stripped literal: underscores do not count
SignedVal(b) ==
    IF b[1] = "-" THEN -NatVal(SelectSeq(Tail(b), IsDigit))
    ELSE NatVal(SelectSeq(b, IsDigit))

\* int(s)
Int_(s) == SignedVal(Strip(s))

\* s.startswith(sep) at offset i (1-based)
MatchAt(s, sep, i) ==
    /\ i + Len(sep) - 1 <= Len(s)
    /\ \A k \in 1..Len(sep) : s[i + k - 1] = sep[k]

\* s.split(sep): every non-overlapping occurrence of sep, left to right, cuts
RECURSIVE SplitFrom(_, _, _, _)
SplitFrom(s, sep, i, cur) ==
    IF i > Len(s) THEN <<cur>>
    ELSE IF MatchAt(s, sep, i)
         THEN <<cur>> \o SplitFrom(s, sep, i + Len(sep), <<>>)
         ELSE SplitFrom(s, sep, i + 1, Append(cur, s[i]))

Split(s, sep) == SplitFrom(s, sep, 1, <<>>)

PT == <<"p", "t">>

\* f"pt{x}pt{y}"
CellName(x, y) == PT \o Str(x) \o PT \o Str(y)

\* ------------------------------------------------------------- snapshot
\* abs(max(self.state.agent.speed_range))
MinSpeedMagnitude(speed_range) == Abs(Max(speed_range[1], speed_range[2]))

\* max_time = self.width // abs(max(self.state.agent.speed_range)) + 1
max_time(w, speed_range) == (w \div MinSpeedMagnitude(speed_range)) + 1

\* for w in range(width): for lane in range(num_lanes): "pt{w}pt{lane}"
generateGridCells(w, lanes) ==
    [i \in 1..(w * lanes) |-> CellName((i - 1) \div lanes, (i - 1) % lanes)]


\* ------------------------------------------- generateInitString: occupancy
\* x(t) with the wrapping branch cut short before `+ self.width) % self.width`
ProjectX_remainder(x0, speed, t, w) ==
    IF x0 - speed * t >= 0 THEN x0 - speed * t
    ELSE x0 - ((speed * t) % w)

\* x(t) as computed for prev_x (at t-1) and new_x (at t)
ProjectX(x0, speed, t, w) ==
    IF x0 - speed * t >= 0 THEN x0 - speed * t
    ELSE (x0 - ((speed * t) % w) + w) % w

\* no sweep at all: only the new position would be blocked
SweepXs_endpoints(new_x, prev_x, speed, w) == <<>>

\* the wrap sweep without its range(new_x+1, self.width) half
SweepXs_nowrap(new_x, prev_x, speed, w) ==
    IF new_x < prev_x /\ speed > 1 THEN Range(new_x + 1, prev_x)
    ELSE IF new_x > prev_x THEN Range(0, prev_x)
    ELSE <<>>

\* the x_co visited by the two sweep loops of one car at one instant
SweepXs(new_x, prev_x, speed, w) ==
    IF new_x < prev_x /\ speed > 1 THEN Range(new_x + 1, prev_x)
    ELSE IF new_x > prev_x THEN Range(0, prev_x) \o Range(new_x + 1, w)
    ELSE <<>>

AGENT1 == <<"a", "g", "e", "n", "t", "1">>

\* f"car{car.id}"
CarName(id) == <<"c", "a", "r">> \o Str(id)

\* if cell in free_cells[t]: emit (blocked cell t), free_cells[t].remove(cell)
BlockIfFree(acc, cell, t, id, withAt) ==
    IF InList(cell, acc.free)
    THEN [acc EXCEPT !.free = ListRemove(@, cell),
                     !.blocked = @ \cup {<<cell, t>>},
                     !.by = @ \cup {<<cell, t, id>>},
                     !.at = IF withAt THEN @ \cup {<<cell, t, CarName(id)>>} ELSE @]
    ELSE acc

RECURSIVE BlockSweep(_, _, _, _, _, _)
BlockSweep(acc, xs, i, y, t, id) ==
    IF i > Len(xs) THEN acc
    ELSE BlockSweep(BlockIfFree(acc, CellName(xs[i], y), t, id, FALSE),
                    xs, i + 1, y, t, id)

\* one car at instant 0: blocked unless it stands on pt0pt0
CarAtZero(acc, car) ==
    LET x == car.position.x
        y == car.position.y
    IN  IF x # 0 \/ y # 0
        THEN IF InList(CellName(x, y), acc.free)
             THEN BlockIfFree(acc, CellName(x, y), 0, car.id, TRUE)
             ELSE [acc EXCEPT !.raised = TRUE]
        ELSE acc

\* one car's iteration at an instant t >= 1, given its speed, prev_x and new_x:
\* its new cell, then the cells it sweeps
CarMoves(acc, car, t, w, speed, prev_x, new_x) ==
    BlockSweep(BlockIfFree(acc, CellName(new_x, car.position.y), t, car.id, TRUE),
               SweepXs(new_x, prev_x, speed, w), 1, car.position.y, t, car.id)

\* speed = abs(car.speed_range[0]); prev_x and new_x from it
CarAtSpeed(acc, car, t, w, speed) ==
    CarMoves(acc, car, t, w, speed,
             ProjectX(car.position.x, speed, t - 1, w),
             ProjectX(car.position.x, speed, t, w))

CarAtInstant(acc, car, t, w) == CarAtSpeed(acc, car, t, w, Abs(car.speed_range[1]))

RECURSIVE CarsAtInstant(_, _, _, _, _)
CarsAtInstant(acc, cars, i, t, w) ==
    IF i > Len(cars) \/ acc.raised THEN acc
    ELSE CarsAtInstant(IF t = 0 THEN CarAtZero(acc, cars[i])
                       ELSE CarAtInstant(acc, cars[i], t, w),
                       cars, i + 1, t, w)

\* free_cells[t] and the facts emitted for instant t by the two car loops
Occupancy(cells, cars, t, w) ==
    CarsAtInstant([free |-> cells, blocked |-> {}, by |-> {}, at |-> {},
                   raised |-> FALSE], cars, 1, t, w)

\* if "pt0pt0" not in free_cells[t]: free_cells[t].append("pt0pt0")
AppendOrigin(free_t) ==
    IF InList(CellName(0, 0), free_t) THEN free_t
    ELSE Append(free_t, CellName(0, 0))

\* ------------------------------------------ generateInitString: transitions
\* _, cur_x, cur_y = cell.split('pt'); int(cur_x), int(cur_y)
CellCoords(parts) == [x |-> Int_(parts[2]), y |-> Int_(parts[3])]

ParseCell(cell) == CellCoords(Split(cell, PT))

\* new_y = cand_y if pt{new_x}pt{cand_y} in free_cells[t] else cur_y
LateralY(new_x, cand_y, cur_y, free_t) ==
    IF InList(CellName(new_x, cand_y), free_t) THEN cand_y ELSE cur_y

\* (up_next cell dest t) and (down_next cell dest t), from new_x, up_y, down_y
LateralTo(cell, cur_y, new_x, up_y, down_y, free_t, t) ==
    [up |-> <<cell, CellName(new_x, LateralY(new_x, up_y, cur_y, free_t)), t>>,
     down |-> <<cell, CellName(new_x, LateralY(new_x, down_y, cur_y, free_t)), t>>]

LateralFrom(cell, cur, free_t, t, lanes) ==
    LateralTo(cell, cur.y,
              IF cur.x = 0 THEN cur.x ELSE Max(0, cur.x - 1),
              IF cur.y = 0 THEN cur.y ELSE cur.y - 1,
              IF cur.y = lanes - 1 THEN cur.y ELSE cur.y + 1,
              free_t, t)

\* the lateral facts of one cell at one instant
LateralFacts(cell, free_t, t, lanes) ==
    LateralFrom(cell, ParseCell(cell), free_t, t, lanes)

\* (forward_next cell dest t -s) for s in range(1, 4)
ForwardFrom(cell, cur, t) ==
    { <<cell, CellName(IF cur.x = 0 THEN cur.x ELSE Max(0, cur.x - s), cur.y),
        t, -s>> : s \in 1..3 }

ForwardFacts(cell, t) == ForwardFrom(cell, ParseCell(cell), t)

ListSet(s) == { s[i] : i \in 1..Len(s) }

NoFacts ==
    [at |-> {}, blocked |-> {}, not_blocked |-> {}, up_next |-> {},
     down_next |-> {}, forward_next |-> {}, next_instant |-> {}]

\* the facts of instant t >= 1, from the occupancy loop's result for t, from
\* free_cells[t] as the transition loop reads it, and from the lateral facts
InstantRecord(t, occ, free_t, lat, cells) ==
    [t |-> t,
     raised |-> occ.raised,
     free |-> free_t,
     by |-> occ.by,
     at |-> occ.at,
     blocked |-> occ.blocked,
     not_blocked |-> IF t = 0 THEN {} ELSE { <<c, t>> : c \in ListSet(occ.free) },
     up_next |-> IF t = 0 THEN {} ELSE { f.up : f \in lat },
     down_next |-> IF t = 0 THEN {} ELSE { f.down : f \in lat },
     forward_next |-> IF t = 0 THEN {}
                      ELSE UNION { ForwardFacts(cells[i], t) : i \in 1..Len(cells) }]

InstantFree(t, occ, free_t, lanes, cells) ==
    InstantRecord(t, occ, free_t,
                  { LateralFacts(cells[i], free_t, t, lanes) : i \in 1..Len(cells) },
                  cells)

\* The statement after the occupancy loop appends pt0pt0 to free_cells[t] with
\* t the value that loop left behind, max_time - 1, before the transition
\* facts are generated.
InstantOcc(t, mt, occ, lanes, cells) ==
    InstantFree(t, occ, IF t = mt - 1 THEN AppendOrigin(occ.free) ELSE occ.free,
                lanes, cells)

\* what generateInitString derives for one instant t
InstantFacts(t, mt, w, lanes, st, cells) ==
    InstantOcc(t, mt, Occupancy(cells, st.cars, t, w), lanes, cells)

\* the init section put together from the per-instant records
InitSection(per, mt, st) ==
    IF mt < 2 \/ \E r \in per : r.raised
    THEN [raised |-> TRUE, free_cells |-> <<>>, by |-> {}, facts |-> NoFacts]
    ELSE [raised |-> FALSE,
          free_cells |-> [t \in 0..(mt - 1) |-> (CHOOSE r \in per : r.t = t).free],
          by |-> UNION { r.by : r \in per },
          facts |->
            [at |-> UNION { r.at : r \in per }
                    \cup {<<CellName(st.agent.position.x, st.agent.position.y),
                            0, AGENT1>>},
             blocked |-> UNION { r.blocked : r \in per },
             not_blocked |-> UNION { r.not_blocked : r \in per },
             up_next |-> UNION { r.up_next : r \in per },
             down_next |-> UNION { r.down_next : r \in per },
             forward_next |-> UNION { r.forward_next : r \in per },
             next_instant |-> { <<i, i + 1>> : i \in 0..(mt - 1) }]]

InitString(mt, w, lanes, st, cells) ==
    InitSection({ InstantFacts(t, mt, w, lanes, st, cells) : t \in 0..(mt - 1) },
                mt, st)

\* generateInitString: the facts of the init section, free_cells as it is left,
\* and whether the call raised (list.remove of an absent cell at instant 0, or
\* the read of t when range(1, max_time) is empty)
generateInitString(w, lanes, st, cells) ==
    InitString(max_time(w, st.agent.speed_range), w, lanes, st, cells)

\* generateGoalString: (or (at finish i agent1) for i in range(self.width))
generateGoalString(w, st) ==
    [op |-> "or",
     atoms |-> [k \in 1..w |->
                  <<CellName(st.finish_position.x, st.finish_position.y),
                    k - 1, AGENT1>>]]

NoGoal == [op |-> "or", atoms |-> <<>>]

\* the objects section written by generateProblemPDDLFile
ProblemObjects(w, cells) ==
    [agent |-> {AGENT1},
     time |-> { x : x \in 0..(w - 1) },
     speed |-> { -1, -2, -3 },
     gridcell |-> ListSet(cells)]

NoObjects == [agent |-> {}, time |-> {}, speed |-> {}, gridcell |-> {}]

\* ------------------------------------------------------------- snapshots
Cells(w, lanes) == { [x |-> x, y |-> y] : x \in 0..(w - 1), y \in 0..(lanes - 1) }

\* cars in iteration order, on pairwise distinct cells, ids by order
CarLists(w, lanes, n) ==
    { [i \in 1..n |-> [id |-> i, position |-> pos[i],
                       speed_range |-> <<-sp[i], -sp[i]>>]] :
        pos \in { p \in [1..n -> Cells(w, lanes)] :
                    \A i, j \in 1..n : i # j => p[i] # p[j] },
        sp \in [1..n -> 0..MaxSpeed] }

Snapshots(w, lanes, ncars, agents, finishes) ==
    { [cars |-> cs, agent |-> [position |-> a, speed_range |-> <<-3, -m>>],
       finish_position |-> f] :
        cs \in UNION { CarLists(w, lanes, n) : n \in 0..ncars },
        a \in agents, f \in finishes, m \in 1..MaxMinSpeed }

\* the agent starts in the rightmost column and drives left to a finish cell
\* in the leftmost column
AgentStarts(w, lanes) == { c \in Cells(w, lanes) : c.x = w - 1 }

Finishes(w, lanes) == { c \in Cells(w, lanes) : c.x = 0 }

\* ------------------------------------------------------------ the program
NotGenerated ==
    /\ grid_cell_list = <<>>
    /\ objects = NoObjects
    /\ free_cells = <<>>
    /\ initFacts = NoFacts
    /\ blocked_by = {}
    /\ goal = NoGoal
    /\ atFacts = {}

NoPlan ==
    /\ plan_src = <<>>
    /\ plan_file = <<>>
    /\ line_no = 0
    /\ action_sequence = <<>>
    /\ env_steps = <<>>

Init ==
    /\ pc = "start"
    /\ width \in 1..MaxWidth
    /\ num_lanes \in 1..MaxLanes
    /\ state \in Snapshots(width, num_lanes, MaxCars,
                           AgentStarts(width, num_lanes), Finishes(width, num_lanes))
    /\ NotGenerated
    /\ NoPlan

\* the problem file's init and goal sections, r being generateInitString's result
WriteProblem(r) ==
    /\ free_cells' = r.free_cells
    /\ initFacts' = r.facts
    /\ blocked_by' = r.by
    /\ atFacts' = r.facts.at
    /\ goal' = IF r.raised THEN NoGoal ELSE generateGoalString(width, state)
    /\ pc' = IF r.raised THEN "crashed" ELSE "problem"

\* generateProblemPDDLFile: objects, grid cells, init section, goal section
GenerateProblemPDDLFile ==
    /\ pc = "start"
    /\ grid_cell_list' = generateGridCells(width, num_lanes)
    /\ objects' = ProblemObjects(width, generateGridCells(width, num_lanes))
    /\ WriteProblem(generateInitString(width, num_lanes, state,
                                       generateGridCells(width, num_lanes)))
    /\ UNCHANGED <<snapshotVars, planVars>>

Next == GenerateProblemPDDLFile

Spec == Init /\ [][Next]_vars

\* ------------------------------------------------- the domain's actions
\* Parameters range over the declared objects of their type. Only `at` facts
\* are added; every other predicate keeps its init-section extension.
Moved(pt2, t2) ==
    /\ atFacts' = atFacts \cup {<<pt2, t2, AGENT1>>}
    /\ UNCHANGED <<pc, snapshotVars, problemVars, planVars>>

\* UP without (not (blocked ?pt2 ?t2)) in its precondition
UP_unguarded ==
    /\ pc = "problem"
    /\ \E f \in initFacts.up_next, n \in initFacts.next_instant :
            /\ {f[1], f[2]} \subseteq objects.gridcell
            /\ {n[1], n[2]} \subseteq objects.time
            /\ f[3] = n[2]
            /\ <<f[1], n[1], AGENT1>> \in atFacts
            /\ Moved(f[2], f[3])

\* UP(?pt1 ?pt2 - gridcell ?t1 ?t2 - time):
\* (and (at ?pt1 ?t1 agent1) (up_next ?pt1 ?pt2 ?t2) (not (blocked ?pt2 ?t2))
\*      (next_instant ?t1 ?t2)) -> (at ?pt2 ?t2 agent1)
\* f binds ?pt1 ?pt2 ?t2 and n binds ?t1 ?t2, all of them declared objects.
UP ==
    /\ pc = "problem"
    /\ \E f \in initFacts.up_next, n \in initFacts.next_instant :
            /\ {f[1], f[2]} \subseteq objects.gridcell
            /\ {n[1], n[2]} \subseteq objects.time
            /\ f[3] = n[2]
            /\ <<f[1], n[1], AGENT1>> \in atFacts
            /\ <<f[2], f[3]>> \notin initFacts.blocked
            /\ Moved(f[2], f[3])

DOWN ==
    /\ pc = "problem"
    /\ \E f \in initFacts.down_next, n \in initFacts.next_instant :
            /\ {f[1], f[2]} \subseteq objects.gridcell
            /\ {n[1], n[2]} \subseteq objects.time
            /\ f[3] = n[2]
            /\ <<f[1], n[1], AGENT1>> \in atFacts
            /\ <<f[2], f[3]>> \notin initFacts.blocked
            /\ Moved(f[2], f[3])

\* FORWARD has the further parameter ?s - speed, bound by f[4]
FORWARD ==
    /\ pc = "problem"
    /\ \E f \in initFacts.forward_next, n \in initFacts.next_instant :
            /\ {f[1], f[2]} \subseteq objects.gridcell
            /\ {n[1], n[2]} \subseteq objects.time
            /\ f[4] \in objects.speed
            /\ f[3] = n[2]
            /\ <<f[1], n[1], AGENT1>> \in atFacts
            /\ <<f[2], f[3]>> \notin initFacts.blocked
            /\ Moved(f[2], f[3])

SearchInit ==
    /\ pc = "start"
    /\ width \in 1..SearchWidth
    /\ num_lanes \in 1..MaxLanes
    /\ state \in Snapshots(width, num_lanes, SearchCars,
                           AgentStarts(width, num_lanes), Finishes(width, num_lanes))
    /\ NotGenerated
    /\ NoPlan

SearchNext == GenerateProblemPDDLFile \/ UP \/ DOWN \/ FORWARD

SearchSpec == SearchInit /\ [][SearchNext]_vars


\* ------------------------------------------------------ plan translation
\* s.split(): cut at runs of whitespace, no empty strings
RECURSIVE SplitWSFrom(_, _, _)
SplitWSFrom(s, i, cur) ==
    IF i > Len(s) THEN (IF cur = <<>> THEN <<>> ELSE <<cur>>)
    ELSE IF IsSpace(s[i])
         THEN (IF cur = <<>> THEN <<>> ELSE <<cur>>) \o SplitWSFrom(s, i + 1, <<>>)
         ELSE SplitWSFrom(s, i + 1, Append(cur, s[i]))

SplitWS(s) == SplitWSFrom(s, 1, <<>>)

\* env.actions of GridDriving-v0 with agent_speed_range=(-3,-1)
EnvActions == <<"up", "down", "forward[-3]", "forward[-2]", "forward[-1]">>

\* list[i] raises IndexError outside -len..len-1
IndexOK(list, i) == -Len(list) <= i /\ i < Len(list)

\* list[i] with Python's negative indices
PyIndex(list, i) == IF i >= 0 THEN list[i + 1] ELSE list[Len(list) + i + 1]

UP_NAME == <<"u", "p">>

DOWN_NAME == <<"d", "o", "w", "n">>

FORWARD_NAME == <<"f", "o", "r", "w", "a", "r", "d">>

\* the comparison on split('pt')[1], the x field, instead of [2]
Coords_first(parts) == { parts[i][2] : i \in 1..Len(parts) }

\* set(coords), coords = [points.split('pt')[2] for points in ...]
Coords(parts) == { parts[i][3] : i \in 1..Len(parts) }

\* env.actions[-1] when both coords are equal, else env.actions[k]
Lateral(coords, k) ==
    IF Cardinality(coords) = 1 THEN PyIndex(EnvActions, -1) ELSE PyIndex(EnvActions, k)

\* speed = int(line.split()[-1][:-1]); env.actions[speed]
ForwardAction(speedStr) ==
    IF IsIntStr(speedStr) /\ IndexOK(EnvActions, Int_(speedStr))
    THEN [kind |-> "action", action |-> PyIndex(EnvActions, Int_(speedStr))]
    ELSE [kind |-> "raise"]

LastSpeed(last) == ForwardAction(SubSeq(last, 1, Len(last) - 1))

\* the three ifs on action, given the split points of line.split()[1:3]
Dispatch(action, parts, last) ==
    IF \E i \in 1..Len(parts) : Len(parts[i]) < 3 THEN [kind |-> "raise"]
    ELSE IF action = UP_NAME THEN [kind |-> "action", action |-> Lateral(Coords(parts), 0)]
    ELSE IF action = DOWN_NAME
         THEN [kind |-> "action", action |-> Lateral(Coords(parts), 1)]
    ELSE IF action = FORWARD_NAME THEN LastSpeed(last)
    ELSE [kind |-> "skip"]

SplitPoints(points) == [i \in 1..Len(points) |-> Split(points[i], PT)]

\* action = tokens[0][1:], points = tokens[1:3], last = tokens[-1]
TranslateTokens(tokens) ==
    Dispatch(Tail(tokens[1]), SplitPoints(SubSeq(tokens, 2, Min(3, Len(tokens)))),
             tokens[Len(tokens)])

\* the body of the loop over plan_file.readlines(): what one line does
TranslateLine(line) ==
    IF line[1] # "(" THEN [kind |-> "skip"] ELSE TranslateTokens(SplitWS(line))

\* the text of a plan line
SP == <<" ">>

PlanLine(r) ==
    IF r.fmt = "comment"
    THEN <<";", " ", "c", "o", "s", "t", " ", "=", " ", "1", "\n">>
    ELSE IF r.fmt = "noargs" THEN <<"(">> \o r.name \o <<")", "\n">>
    ELSE IF r.fmt = "badcell"
    THEN <<"(">> \o r.name \o SP \o PT \o Str(r.from.x) \o SP
         \o CellName(r.to.x, r.to.y) \o SP \o Str(r.t1) \o SP \o Str(r.t2)
         \o <<")", "\n">>
    ELSE <<"(">> \o r.name \o (IF r.fmt = "formfeed" THEN <<"\f">> ELSE SP)
         \o CellName(r.from.x, r.from.y) \o SP
         \o CellName(r.to.x, r.to.y) \o SP \o Str(r.t1) \o SP \o Str(r.t2)
         \o (IF r.fmt = "speed" THEN SP \o Str(r.s)
             ELSE IF r.fmt = "underscore" THEN SP \o <<"0", "_">> \o Str(r.s)
             ELSE IF r.fmt = "unicode" THEN SP \o <<"-", "۳">>
             ELSE IF r.fmt = "badspeed" THEN SP \o <<"f", "a", "s", "t">>
             ELSE <<>>)
         \o <<")", "\n">>

WAIT_NAME == <<"w", "a", "i", "t">>

PlanCells == { [x |-> 0, y |-> 0], [x |-> 1, y |-> 0], [x |-> 1, y |-> 1],
               [x |-> 10, y |-> 1] }

PlanEntry(fmt, name, from, to, s) ==
    [fmt |-> fmt, name |-> name, from |-> from, to |-> to, t1 |-> 0, t2 |-> 1,
     s |-> s]

\* the lines a plan file is drawn from: action instances of the three domain
\* actions, the planner's trailing comment, and lines of no known shape
PlanEntries ==
    LET c00 == [x |-> 0, y |-> 0]
        c10 == [x |-> 1, y |-> 0]
    IN  { PlanEntry("cells", n, a, b, 0) :
            n \in {UP_NAME, DOWN_NAME}, a \in PlanCells, b \in PlanCells }
        \cup { PlanEntry("speed", FORWARD_NAME, c10, c00, -k) : k \in 1..3 }
        \cup { PlanEntry("speed", FORWARD_NAME, c10, c00, -6),
               PlanEntry("badspeed", FORWARD_NAME, c10, c00, 0),
               PlanEntry("underscore", FORWARD_NAME, c10, c00, 1),
               PlanEntry("unicode", FORWARD_NAME, c10, c00, -3),
               PlanEntry("formfeed", UP_NAME, [x |-> 1, y |-> 1], c00, 0),
               PlanEntry("cells", WAIT_NAME, c10, c00, 0),
               PlanEntry("noargs", WAIT_NAME, c10, c00, 0),
               PlanEntry("noargs", UP_NAME, c10, c00, 0),
               PlanEntry("badcell", UP_NAME, c10, c00, 0),
               PlanEntry("comment", <<>>, c10, c00, 0) }

PlanInit ==
    /\ pc \in {"generatePlan", "simulateSolution"}
    /\ width = 1
    /\ num_lanes = 1
    /\ state = [cars |-> <<>>,
                agent |-> [position |-> [x |-> 0, y |-> 0], speed_range |-> <<-3, -1>>],
                finish_position |-> [x |-> 0, y |-> 0]]
    /\ NotGenerated
    /\ plan_src \in UNION { [1..n -> PlanEntries] : n \in 0..MaxPlanLen }
    /\ plan_file = [i \in 1..Len(plan_src) |-> PlanLine(plan_src[i])]
    /\ line_no = 0
    /\ action_sequence = <<>>
    /\ env_steps = <<>>

\* one iteration of generatePlan's loop, r being what the line does
AppendTranslated(r) ==
    /\ pc' = IF r.kind = "raise" THEN "raised" ELSE pc
    /\ action_sequence' = IF r.kind = "action" THEN Append(action_sequence, r.action)
                          ELSE action_sequence

GeneratePlanLine ==
    /\ pc = "generatePlan"
    /\ line_no < Len(plan_file)
    /\ AppendTranslated(TranslateLine(plan_file[line_no + 1]))
    /\ line_no' = line_no + 1
    /\ UNCHANGED <<snapshotVars, problemVars, atFacts, plan_src, plan_file, env_steps>>

\* return action_sequence
GeneratePlanReturn ==
    /\ pc = "generatePlan"
    /\ line_no = Len(plan_file)
    /\ pc' = "returned"
    /\ UNCHANGED <<snapshotVars, problemVars, atFacts, planVars>>

\* one iteration of simulateSolution's loop, r being what the line does
StepTranslated(r) ==
    /\ pc' = IF r.kind = "raise" THEN "raised" ELSE pc
    /\ env_steps' = IF r.kind = "action" THEN Append(env_steps, r.action)
                    ELSE env_steps

SimulateLine ==
    /\ pc = "simulateSolution"
    /\ line_no < Len(plan_file)
    /\ StepTranslated(TranslateLine(plan_file[line_no + 1]))
    /\ line_no' = line_no + 1
    /\ UNCHANGED <<snapshotVars, problemVars, atFacts, plan_src, plan_file,
                   action_sequence>>

\* simulateSolution returns at the end of the plan file
SimulateReturn ==
    /\ pc = "simulateSolution"
    /\ line_no = Len(plan_file)
    /\ pc' = "simulated"
    /\ UNCHANGED <<snapshotVars, problemVars, atFacts, planVars>>

PlanNext == GeneratePlanLine \/ GeneratePlanReturn \/ SimulateLine \/ SimulateReturn

PlanSpec == PlanInit /\ [][PlanNext]_vars


\* ================================================================ claims
Horizon == max_time(width, state.agent.speed_range)

Instants == 1..(Horizon - 1)

AllCells == { CellName(c.x, c.y) : c \in Cells(width, num_lanes) }

BlockedAt(t) == { f[1] : f \in { g \in initFacts.blocked : g[2] = t } }

FreeAt(t) == ListSet(free_cells[t])

Lane(y) == { CellName(x, y) : x \in 0..(width - 1) }

CarIds == 1..Len(state.cars)

Speed(i) == Abs(state.cars[i].speed_range[1])

\* x(t) = wrap(x(0) - s*t, width)
WrapX(i, t) == (state.cars[i].position.x - Speed(i) * t) % width

\* the cells strictly between the instant-(t-1) and the instant-t position of
\* car i, going left and around from x = 0 to x = width - 1
Span(i, t) ==
    LET d == (WrapX(i, t - 1) - WrapX(i, t)) % width
    IN  { (WrapX(i, t - 1) - k) % width : k \in 1..(d - 1) }

\* the cells for which car i's iteration at instant t emitted a blocked fact
BlockedBy(i, t) == { f[1] : f \in { g \in blocked_by : g[2] = t /\ g[3] = i } }

\* C1: at every instant t in [0, horizon) the cells with a (blocked c t) fact
\* and free_cells[t], as the transition facts read it, are disjoint and
\* together make up the whole grid.
C1_Partition ==
    pc = "problem" =>
        \A t \in 0..(Horizon - 1) :
            /\ BlockedAt(t) \cap FreeAt(t) = {}
            /\ BlockedAt(t) \cup FreeAt(t) = AllCells

FinishCell == CellName(state.finish_position.x, state.finish_position.y)

\* C2: the goal is a disjunction of (at finishCell i agent1) over exactly the
\* instants i = 0..horizon, horizon being max_time.
C2_GoalOverHorizon ==
    pc = "problem" =>
        /\ goal.op = "or"
        /\ ListSet(goal.atoms) = { <<FinishCell, i, AGENT1>> : i \in 0..Horizon }

\* C3: whenever (at c t agent1) holds with t >= 1, c has no (blocked c t) fact
\* and no obstacle's projected position at instant t is c.
C3_AgentNeverOnObstacle ==
    pc = "problem" =>
        \A f \in atFacts :
            (f[3] = AGENT1 /\ f[2] >= 1) =>
                /\ <<f[1], f[2]>> \notin initFacts.blocked
                /\ \A i \in CarIds :
                     f[1] # CellName(WrapX(i, f[2]), state.cars[i].position.y)

\* the agent has moved to an instant at which some cell of the grid is blocked,
\* and a cell it could have been sent to by a transition fact is among them
C3_Witness ==
    /\ pc = "problem"
    /\ \E f \in atFacts :
         /\ f[3] = AGENT1
         /\ f[2] >= 1
         /\ \E g \in initFacts.forward_next :
              /\ g[3] = f[2]
              /\ <<g[1], f[2] - 1, AGENT1>> \in atFacts
              /\ <<g[2], g[3]>> \in initFacts.blocked

\* car i moves from x = 4 at instant t-1 to x = 1 at instant t at speed 3
Sweeps4To1(i, t) ==
    /\ Speed(i) = 3
    /\ WrapX(i, t - 1) = 4
    /\ WrapX(i, t) = 1

\* C4 as stated: the cells x = 4, 3, 2 and 1 of the lane are all blocked at t.
C4_SweepIncludesStart ==
    pc = "problem" =>
        \A i \in CarIds, t \in Instants :
            Sweeps4To1(i, t) =>
                \A x \in 1..4 :
                    <<CellName(x, state.cars[i].position.y), t>> \in initFacts.blocked

\* C4 as amended: the cells x = 3, 2 and 1 of the lane are blocked at t, and
\* the obstacle's move does not block x = 4, the cell it left.
C4_SweepCoversPassedCells ==
    pc = "problem" =>
        \A i \in CarIds, t \in Instants :
            Sweeps4To1(i, t) =>
                /\ \A x \in 1..3 :
                     <<CellName(x, state.cars[i].position.y), t>> \in initFacts.blocked
                /\ CellName(4, state.cars[i].position.y) \notin BlockedBy(i, t)

C4_Witness ==
    /\ pc = "problem"
    /\ \E i \in CarIds, t \in Instants :
         /\ Sweeps4To1(i, t)
         /\ BlockedBy(i, t) = { CellName(x, state.cars[i].position.y) : x \in 1..3 }

\* the last consumed plan line, and what the loop has produced so far
LastSrc == plan_src[line_no]

\* Only one of the two functions runs, so the other list is empty: after a
\* raise the list produced so far is the one that is not.
Produced ==
    IF pc \in {"generatePlan", "returned"} THEN action_sequence
    ELSE IF pc \in {"simulateSolution", "simulated"} THEN env_steps
    ELSE action_sequence \o env_steps

IsLateralLine(r) == r.fmt = "cells" /\ r.name \in {UP_NAME, DOWN_NAME}

LateralAction(r) == IF r.name = UP_NAME THEN PyIndex(EnvActions, 0)
                    ELSE PyIndex(EnvActions, 1)

LineConsumed == pc # "raised" /\ line_no >= 1

\* C5 as stated: an up/down line whose endpoint cells have the same x is
\* translated to env.actions[-1], one whose endpoint x differ to the lateral
\* action.
C5_SameXIsForward ==
    (LineConsumed /\ IsLateralLine(LastSrc)) =>
        /\ Len(Produced) >= 1
        /\ Produced[Len(Produced)] =
             IF LastSrc.from.x = LastSrc.to.x THEN PyIndex(EnvActions, -1)
             ELSE LateralAction(LastSrc)

\* C5 as amended: an up/down line whose endpoint cells have the same y (lane)
\* is translated to env.actions[-1], one whose endpoint y differ to the
\* lateral action, in generatePlan and in simulateSolution.
C5_SameLaneIsForward ==
    (LineConsumed /\ IsLateralLine(LastSrc)) =>
        /\ Len(Produced) >= 1
        /\ Produced[Len(Produced)] =
             IF LastSrc.from.y = LastSrc.to.y THEN PyIndex(EnvActions, -1)
             ELSE LateralAction(LastSrc)

\* an up line within one lane and across two columns has been translated to
\* the minimum-magnitude forward action
C5_Witness ==
    /\ LineConsumed
    /\ IsLateralLine(LastSrc)
    /\ LastSrc.name = UP_NAME
    /\ LastSrc.from.y = LastSrc.to.y
    /\ LastSrc.from.x # LastSrc.to.x
    /\ Produced[Len(Produced)] = "forward[-1]"

\* a line that begins with "(" and has no known action shape
UnknownShape(r) ==
    \/ r.fmt \in {"noargs", "badcell", "badspeed"}
    \/ r.fmt \in {"cells", "speed"} /\ r.name \notin {UP_NAME, DOWN_NAME, FORWARD_NAME}
    \/ r.fmt = "speed" /\ -r.s \notin 1..3

\* C6: a plan with a line that begins with "(" and matches no known action
\* shape makes generatePlan end in an error: it never returns an action
\* sequence for such a plan.
C6_UnknownLineIsFatal ==
    pc = "returned" => \A i \in 1..Len(plan_src) : ~UnknownShape(plan_src[i])

\* C7: every object named in an init fact or in the goal is declared in the
\* objects section: who, cell, instant and speed arguments alike.
C7_ObjectsDeclared ==
    pc = "problem" =>
        /\ \A f \in initFacts.at \cup ListSet(goal.atoms) :
             /\ f[1] \in objects.gridcell
             /\ f[2] \in objects.time
             /\ f[3] \in objects.agent
        /\ \A f \in initFacts.blocked \cup initFacts.not_blocked :
             f[1] \in objects.gridcell /\ f[2] \in objects.time
        /\ \A f \in initFacts.up_next \cup initFacts.down_next :
             /\ f[1] \in objects.gridcell
             /\ f[2] \in objects.gridcell
             /\ f[3] \in objects.time
        /\ \A f \in initFacts.forward_next :
             /\ f[1] \in objects.gridcell
             /\ f[2] \in objects.gridcell
             /\ f[3] \in objects.time
             /\ f[4] \in objects.speed
        /\ \A f \in initFacts.next_instant :
             f[1] \in objects.time /\ f[2] \in objects.time

\* C8: for every obstacle and every instant t the code computes, new_x (and
\* prev_x for t-1) is (x0 - s*t) mod width, lies in [0, width), and the facts
\* the obstacle emits stay in its lane y.
C8_ProjectionIsWrap ==
    pc = "problem" =>
        \A i \in CarIds, t \in Instants :
            LET x0 == state.cars[i].position.x
                y == state.cars[i].position.y
                new_x == ProjectX(x0, Speed(i), t, width)
                prev_x == ProjectX(x0, Speed(i), t - 1, width)
            IN  /\ new_x = WrapX(i, t)
                /\ prev_x = WrapX(i, t - 1)
                /\ new_x \in 0..(width - 1)
                /\ prev_x \in 0..(width - 1)
                /\ <<CellName(WrapX(i, t), y), t>> \in initFacts.blocked
                /\ BlockedBy(i, t) \subseteq Lane(y)

\* an obstacle has gone past x = 0 and around at an instant of the problem
C8_Witness ==
    /\ pc = "problem"
    /\ \E i \in CarIds, t \in Instants :
         /\ state.cars[i].position.x - Speed(i) * t < 0
         /\ <<CellName(WrapX(i, t), state.cars[i].position.y), t, CarName(i)>>
              \in initFacts.at

\* C9: for an obstacle of speed s > 1 and an instant t in [1, horizon), every
\* cell of its lane strictly between its two positions, leftward and around,
\* is blocked at t, and the obstacle blocks no cell outside that span and its
\* new position.
C9_SweepIsSpan ==
    pc = "problem" =>
        \A i \in CarIds, t \in Instants :
            Speed(i) > 1 =>
                LET y == state.cars[i].position.y
                IN  /\ \A x \in Span(i, t) : <<CellName(x, y), t>> \in initFacts.blocked
                    /\ BlockedBy(i, t) \subseteq
                         { CellName(x, y) : x \in Span(i, t) \cup {WrapX(i, t)} }

\* a fast obstacle wraps around and blocks cells on both sides of the edge
C9_Witness ==
    /\ pc = "problem"
    /\ \E i \in CarIds, t \in Instants :
         /\ Speed(i) > 1
         /\ WrapX(i, t) > WrapX(i, t - 1)
         /\ 0 \in Span(i, t)
         /\ (width - 1) \in Span(i, t)
         /\ BlockedBy(i, t) = { CellName(x, state.cars[i].position.y) :
                                  x \in Span(i, t) \cup {WrapX(i, t)} }

\* C10: at every instant t in [1, horizon), the last included, up_next leads
\* from (x, y) to (max(0, x-1), max(0, y-1)) if that cell is not blocked at t
\* and to (max(0, x-1), y) otherwise; down_next likewise with
\* min(laneCount-1, y+1).
C10_LateralRule ==
    pc = "problem" =>
        \A c \in Cells(width, num_lanes), t \in Instants :
            LET nx == Max(0, c.x - 1)
                uy == Max(0, c.y - 1)
                dy == Min(num_lanes - 1, c.y + 1)
                dest(y) == IF <<CellName(nx, y), t>> \notin initFacts.blocked
                           THEN CellName(nx, y) ELSE CellName(nx, c.y)
                from == CellName(c.x, c.y)
            IN  /\ { f \in initFacts.up_next : f[1] = from /\ f[3] = t }
                     = { <<from, dest(uy), t>> }
                /\ { f \in initFacts.down_next : f[1] = from /\ f[3] = t }
                     = { <<from, dest(dy), t>> }

\* ceil(a / b) for a >= 0 and b >= 1
CeilDiv(a, b) == (a + b - 1) \div b

\* C11: the horizon max_time computed by generateInitString, which is also the
\* number of (next_instant i i+1) facts and of free-cell lists it builds,
\* equals ceil(width / m) + 1, m being the smallest speed magnitude of the
\* agent's speed range.
C11_HorizonIsCeiling ==
    pc = "problem" =>
        /\ Horizon = CeilDiv(width, MinSpeedMagnitude(state.agent.speed_range)) + 1
        /\ Cardinality(initFacts.next_instant) = Horizon
        /\ DOMAIN free_cells = 0..(Horizon - 1)

\* C12: in every state reached by applying UP, DOWN and FORWARD, each instant
\* has at most one cell c with (at c t agent1).
C12_OneCellPerInstant ==
    pc = "problem" =>
        \A f, g \in atFacts :
            (f[3] = AGENT1 /\ g[3] = AGENT1 /\ f[2] = g[2]) => f[1] = g[1]

====
